---- MODULE Spec2Model ----
(***************************************************************************)
(* ModernVCS (src/unnamed/part_000): a staging index, a content-addressed  *)
(* blob store, a commit store, branch references and HEAD, all persisted   *)
(* as files under .simplevcs, plus the one field an instance keeps in      *)
(* memory (this.currentBranch).                                            *)
(*                                                                         *)
(* Files are modelled by their text.  A JSON text is the pair of the value *)
(* it encodes and the indentation it was written with; a SHA-1 digest is   *)
(* the (collision-free) wrapping of the text it was computed from.         *)
(* Branch names and file names are plain names (no path separators).       *)
(***************************************************************************)
EXTENDS Integers, Sequences, FiniteSets, TLC

\* ------------------------------------------------------------------ inputs
Filenames   == {"a.txt", "b.txt"}
Contents    == {"x", "y"}
\* what the user may put in each working file; NoFile is "deleted"
Editable    == [f \in Filenames |->
                  IF f = "a.txt" THEN {"x", "y", "<no such file>"} ELSE {"x"}]
BranchNames == {"main", "feature"}
Messages    == {"first"}

MaxArgs     == 2    \* longest argument list handed to add
MaxClock    == 2    \* timestamps the wall clock hands out (one per commit object)
MaxIndex    == 2    \* entries the Sprout index grows to
MaxStaged   == 3    \* entries the staging file of SimpleVCS grows to

\* the argument lists of add over a set of names
ArgLists(names) == UNION {[1..n -> names] : n \in 1..MaxArgs}

\* ------------------------------------------------------------------- state
VARIABLES
  currentBranch,  \* this.currentBranch of the live instance
  staging,        \* text of .simplevcs/staging.json, or ENOENT
  HEAD,           \* text of .simplevcs/HEAD, or ENOENT
  files,          \* .simplevcs/files:    blob hash   -> content
  commits,        \* .simplevcs/commits:  commit hash -> text
  branches,       \* .simplevcs/branches: branch name -> text (a commit hash)
  workdir,        \* the working tree: filename -> content, or NoFile
  clock,          \* the wall clock, in timestamp units
  pc,             \* position inside commit(): "idle", "branch", "staging"
  pending,        \* commit()'s locals while it is between two writes
  made,           \* hashes returned by commit(), oldest first
  result,         \* outcome of the latest command: op, ok ("it returned"), and
                  \* for add the names whose staged hash it replaced
  \* Sprout (src/sprout.js), a second repository format under .sprout
  sHEAD,          \* text of .sprout/HEAD: empty, or the latest commit hash
  sIndex,         \* text of .sprout/index
  sObjects,       \* .sprout/objects: hash -> text (blobs and commits alike)
  sLog,           \* Sprout.log(): position (idle, loop, body, done, threw) and its
                  \* local currentCommitHash
  adding,         \* ModernVCS.add of a directory while its addFile calls run:
                  \* the staging array in memory and each call's position
  \* SimpleVCS (src/simple-sprout.js), one CLI process
  vStaging,       \* text of staging.json of SimpleVCS, or ENOENT
  vFiles,         \* the files folder of SimpleVCS: its entries hash -> content, or ENOENT
  vSetup,         \* position of the constructor's setupFolders()
  vAdds           \* the add calls the CLI started: position and locals of each

vars == <<currentBranch, staging, HEAD, files, commits, branches, workdir,
          clock, pc, pending, made, result, sHEAD, sIndex, sObjects, sLog,
          adding, vStaging, vFiles, vSetup, vAdds>>

sprout == <<sHEAD, sIndex, sObjects, sLog>>

simple == <<vStaging, vFiles, vSetup, vAdds>>

modern == <<currentBranch, staging, HEAD, files, commits, branches, pc, pending,
            made, result, adding>>

disk == <<staging, HEAD, files, commits, branches>>

\* -------------------------------------------------------------- primitives
Null   == [null |-> TRUE]          \* JavaScript null
ENOENT == [code |-> "ENOENT"]      \* the file does not exist
NoFile == "<no such file>"         \* a working file that does not exist
EmptyText == [text |-> ""]         \* a file of length 0

JSONstringify(value, space) == [json |-> value, space |-> space]
JSONparse(text) == text.json

createHash(content) == [sha1 |-> content]

writeFile(dir, name, content) == (name :> content) @@ dir

headRef(branchName) == [prefix |-> "ref: refs/heads/", name |-> branchName]

\* ----------------------------------------------------------- helper methods
getStaging == JSONparse(staging)

saveStaging(stg) == JSONstringify(stg, 2)

getCurrentBranch == HEAD.name

getCurrentCommit ==
  IF HEAD = ENOENT THEN Null
  ELSE LET branch == getCurrentBranch IN
    IF branch \notin DOMAIN branches THEN Null
    ELSE LET commitHash == branches[branch] IN
      IF commitHash \notin DOMAIN commits THEN Null
      ELSE LET c == JSONparse(commits[commitHash]) IN
        [hash |-> commitHash, timestamp |-> c.timestamp, message |-> c.message,
         files |-> c.files, parent |-> c.parent, branch |-> c.branch]

\* the pointer written as the digest of the stored (indented) commit text
updateBranchPointerRehash(branch, commitHash) ==
  writeFile(branches, branch, createHash(commits[commitHash]))

updateBranchPointer(branch, commitHash) == writeFile(branches, branch, commitHash)

\* ------------------------------------------------------------------ add
\* staging.findIndex(f => f.filename === filename), 1-based, 0 for "not found"
findIndex(stg, filename) ==
  IF \E i \in 1..Len(stg) : stg[i].filename = filename
  THEN CHOOSE i \in 1..Len(stg) :
         /\ stg[i].filename = filename
         /\ \A j \in 1..(i - 1) : stg[j].filename # filename
  ELSE 0

\* addFile with the blob keyed by the digest of the file's name
addFileByName(filename, w) ==
  LET content == workdir[filename]
      hash == createHash(filename)
      existingIndex == findIndex(w.staging, filename)
  IN [ok |-> w.ok,
      files |-> writeFile(w.files, hash, content),
      staging |-> IF existingIndex # 0
                  THEN [w.staging EXCEPT ![existingIndex].hash = hash]
                  ELSE Append(w.staging, [filename |-> filename, hash |-> hash])]

\* addFile without the findIndex lookup: every add appends
addFilePush(filename, w) ==
  LET content == workdir[filename]
      hash == createHash(content)
  IN [ok |-> w.ok,
      files |-> writeFile(w.files, hash, content),
      staging |-> Append(w.staging, [filename |-> filename, hash |-> hash])]

\* w = [ok, staging, files]: the staging array in memory and the blob store
addFile(filename, w) ==
  LET content == workdir[filename]
      hash == createHash(content)
      existingIndex == findIndex(w.staging, filename)
  IN [ok |-> w.ok,
      files |-> writeFile(w.files, hash, content),
      staging |-> IF existingIndex # 0
                  THEN [w.staging EXCEPT ![existingIndex].hash = hash]
                  ELSE Append(w.staging, [filename |-> filename, hash |-> hash])]

\* the for loop of add(): fs.stat throws on a file that does not exist
RECURSIVE addLoop(_, _, _)
addLoop(filenames, i, w) ==
  IF i > Len(filenames) THEN w
  ELSE IF workdir[filenames[i]] = NoFile THEN [w EXCEPT !.ok = FALSE]
  ELSE addLoop(filenames, i + 1, addFile(filenames[i], w))

\* the filenames of an add whose staged entry is replaced by another hash
restaged(filenames) ==
  {f \in {filenames[i] : i \in 1..Len(filenames)} :
     /\ workdir[f] # NoFile
     /\ \E i \in 1..Len(getStaging) :
          getStaging[i].filename = f /\ getStaging[i].hash # createHash(workdir[f])}

Add(filenames) ==
  /\ pc = "idle"
  /\ IF staging = ENOENT
     THEN /\ result' = [op |-> "add", ok |-> FALSE, names |-> {}]
          /\ UNCHANGED <<staging, files>>
     ELSE LET w == addLoop(filenames, 1,
                           [ok |-> TRUE, staging |-> getStaging, files |-> files])
          IN /\ files' = w.files
             /\ staging' = IF w.ok THEN saveStaging(w.staging) ELSE staging
             /\ result' = [op |-> "add", ok |-> w.ok,
                           names |-> IF w.ok THEN restaged(filenames) ELSE {}]
  /\ UNCHANGED <<sprout, simple, adding, currentBranch, HEAD, commits, branches, workdir, clock, pc,
                 pending, made>>

\* ------------------------------------------------------- add of a directory
\* the files of the directory handed to add, in the order of its traversal
directory == <<"a.txt", "b.txt">>

getFilesFromDirectory == SelectSeq(directory, LAMBDA file : workdir[file] # NoFile)

\* lines 57-64: add reads the staging index, lists the directory and starts one
\* addFile per file; each runs to its first await
AddDirectoryStart ==
  /\ pc = "idle" /\ adding = Null
  /\ IF staging = ENOENT
     THEN /\ result' = [op |-> "add directory", ok |-> FALSE]
          /\ UNCHANGED adding
     ELSE LET dirFiles == getFilesFromDirectory
          IN /\ adding' = [staging |-> getStaging,
                           dirFiles |-> dirFiles,
                           tasks |-> [file \in {dirFiles[i] : i \in 1..Len(dirFiles)} |->
                                        [pc |-> "read", content |-> NoFile]]]
             /\ UNCHANGED result
  /\ UNCHANGED <<sprout, simple, currentBranch, disk, workdir, clock, pc, pending, made>>

\* line 79: the read of one addFile completes, or rejects
AddFileRead(filename) ==
  /\ adding # Null /\ filename \in DOMAIN adding.tasks
  /\ adding.tasks[filename].pc = "read"
  /\ adding' = [adding EXCEPT !.tasks[filename] =
                  IF workdir[filename] = NoFile
                  THEN [pc |-> "threw", content |-> NoFile]
                  ELSE [pc |-> "write", content |-> workdir[filename]]]
  /\ UNCHANGED <<sprout, simple, currentBranch, disk, workdir, clock, pc, pending,
                 made, result>>

\* line 82: the blob of one addFile is written
AddFileWrite(filename) ==
  /\ adding # Null /\ filename \in DOMAIN adding.tasks
  /\ adding.tasks[filename].pc = "write"
  /\ LET content == adding.tasks[filename].content
     IN files' = writeFile(files, createHash(content), content)
  /\ adding' = [adding EXCEPT !.tasks[filename].pc = "update"]
  /\ UNCHANGED <<sprout, simple, currentBranch, staging, HEAD, commits, branches,
                 workdir, clock, pc, pending, made, result>>

\* the staging array after lines 84-89 of one addFile
stagingWith(stg, filename, hash) ==
  LET existingIndex == findIndex(stg, filename)
  IN IF existingIndex # 0
     THEN [stg EXCEPT ![existingIndex].hash = hash]
     ELSE Append(stg, [filename |-> filename, hash |-> hash])

\* lines 84-89: after its write, one addFile updates the array all of them share
AddFileUpdate(filename) ==
  /\ adding # Null /\ filename \in DOMAIN adding.tasks
  /\ adding.tasks[filename].pc = "update"
  /\ adding' = [adding EXCEPT
                  !.staging = stagingWith(@, filename,
                                createHash(adding.tasks[filename].content)),
                  !.tasks[filename].pc = "done"]
  /\ UNCHANGED <<sprout, simple, currentBranch, disk, workdir, clock, pc, pending,
                 made, result>>

\* lines 64 and 70: every addFile has returned, the array is saved
AddDirectorySave ==
  /\ adding # Null
  /\ \A file \in DOMAIN adding.tasks : adding.tasks[file].pc = "done"
  /\ staging' = saveStaging(adding.staging)
  /\ result' = [op |-> "add directory", ok |-> TRUE]
  /\ adding' = Null
  /\ UNCHANGED <<sprout, simple, currentBranch, HEAD, files, commits, branches,
                 workdir, clock, pc, pending, made>>

\* lines 72-75: an addFile rejected, Promise.all rejects and add throws; the
\* process exits whatever the other calls were doing
AddDirectoryThrow ==
  /\ adding # Null
  /\ \E file \in DOMAIN adding.tasks : adding.tasks[file].pc = "threw"
  /\ result' = [op |-> "add directory", ok |-> FALSE]
  /\ adding' = Null
  /\ UNCHANGED <<sprout, simple, currentBranch, disk, workdir, clock, pc, pending, made>>

\* ----------------------------------------------------------------- commit
\* the commit object with the parent link left out
newCommitRoot(message) ==
  [timestamp |-> clock, message |-> message, files |-> getStaging,
   parent |-> Null, branch |-> currentBranch]

\* the commit object with the parent named by the digest of its stored text
newCommitRehash(message) ==
  LET previousCommit == getCurrentCommit
  IN [timestamp |-> clock,
      message |-> message,
      files |-> getStaging,
      parent |-> IF previousCommit = Null THEN Null
                 ELSE createHash(commits[previousCommit.hash]),
      branch |-> currentBranch]

\* the commit object as a cumulative snapshot: the staged entries, then the
\* entries of the previous commit that were not staged again
newCommitCumulative(message) ==
  LET previousCommit == getCurrentCommit
      carried == IF previousCommit = Null THEN <<>>
                 ELSE SelectSeq(previousCommit.files,
                        LAMBDA file : findIndex(getStaging, file.filename) = 0)
  IN [timestamp |-> clock,
      message |-> message,
      files |-> getStaging \o carried,
      parent |-> IF previousCommit = Null THEN Null ELSE previousCommit.hash,
      branch |-> currentBranch]

\* lines 100-107: the commit object
newCommit(message) ==
  LET previousCommit == getCurrentCommit
  IN [timestamp |-> clock,
      message |-> message,
      files |-> getStaging,
      parent |-> IF previousCommit = Null THEN Null ELSE previousCommit.hash,
      branch |-> currentBranch]

\* commit without the "Nothing to commit!" check
CommitWriteUnchecked(message) ==
  /\ pc = "idle"
  /\ IF staging = ENOENT
     THEN /\ result' = [op |-> "commit", ok |-> FALSE]
          /\ UNCHANGED <<commits, clock, pc, pending>>
     ELSE /\ clock <= MaxClock
          /\ LET commit == newCommit(message)
                 commitHash == createHash(JSONstringify(commit, 0))
             IN /\ commits' = writeFile(commits, commitHash, JSONstringify(commit, 2))
                /\ pending' = [commitHash |-> commitHash]
          /\ clock' = clock + 1
          /\ pc' = "branch"
          /\ UNCHANGED result
  /\ UNCHANGED <<sprout, simple, adding, currentBranch, staging, HEAD, files, branches, workdir, made>>

\* lines 94-112: read the staging index, build the commit, write its object
CommitWrite(message) ==
  /\ pc = "idle"
  /\ IF staging = ENOENT \/ (staging # ENOENT /\ Len(getStaging) = 0)
     THEN /\ result' = [op |-> "commit", ok |-> FALSE]
          /\ UNCHANGED <<commits, clock, pc, pending>>
     ELSE /\ clock <= MaxClock
          /\ LET commit == newCommit(message)
                 commitHash == createHash(JSONstringify(commit, 0))
             IN /\ commits' = writeFile(commits, commitHash, JSONstringify(commit, 2))
                /\ pending' = [commitHash |-> commitHash]
          /\ clock' = clock + 1
          /\ pc' = "branch"
          /\ UNCHANGED result
  /\ UNCHANGED <<sprout, simple, adding, currentBranch, staging, HEAD, files, branches, workdir, made>>

\* commit that goes on to the staging index without writing the pointer
CommitUpdateBranchSkipped ==
  /\ pc = "branch"
  /\ pc' = "staging"
  /\ UNCHANGED <<sprout, simple, adding, currentBranch, disk, workdir, clock, pending, made, result>>

\* line 113
CommitUpdateBranch ==
  /\ pc = "branch"
  /\ branches' = updateBranchPointer(currentBranch, pending.commitHash)
  /\ pc' = "staging"
  /\ UNCHANGED <<sprout, simple, adding, currentBranch, staging, HEAD, files, commits, workdir, clock,
                 pending, made, result>>

\* commit that returns without saving the emptied staging index
CommitKeepStaging ==
  /\ pc = "staging"
  /\ made' = Append(made, pending.commitHash)
  /\ result' = [op |-> "commit", ok |-> TRUE]
  /\ pending' = Null
  /\ pc' = "idle"
  /\ UNCHANGED <<sprout, simple, adding, currentBranch, staging, HEAD, files, commits, branches, workdir,
                 clock>>

\* lines 114-119
CommitSaveStaging ==
  /\ pc = "staging"
  /\ staging' = saveStaging(<<>>)
  /\ made' = Append(made, pending.commitHash)
  /\ result' = [op |-> "commit", ok |-> TRUE]
  /\ pending' = Null
  /\ pc' = "idle"
  /\ UNCHANGED <<sprout, simple, adding, currentBranch, HEAD, files, commits, branches, workdir, clock>>

\* branch without the "no commits exist" check
BranchUnchecked(branchName) ==
  /\ pc = "idle"
  /\ LET currentCommit == getCurrentCommit IN
       /\ branches' = writeFile(branches, branchName,
                                IF currentCommit = Null THEN Null
                                ELSE currentCommit.hash)
       /\ result' = [op |-> "branch", ok |-> TRUE]
  /\ UNCHANGED <<sprout, simple, adding, currentBranch, staging, HEAD, files, commits, workdir, clock,
                 pc, pending, made>>

\* one of the three writes of commit rejects (lines 112, 113, 114): the catch
\* logs and rethrows, nothing is rolled back and nothing more is written
CommitFail ==
  /\ \/ pc = "idle" /\ staging # ENOENT /\ Len(getStaging) > 0
     \/ pc = "branch"
     \/ pc = "staging"
  /\ result' = [op |-> "commit", ok |-> FALSE]
  /\ pending' = Null
  /\ pc' = "idle"
  /\ UNCHANGED <<sprout, simple, adding, currentBranch, disk, workdir, clock, made>>

\* ----------------------------------------------------------------- branch
Branch(branchName) ==
  /\ pc = "idle"
  /\ LET currentCommit == getCurrentCommit IN
       IF currentCommit = Null
       THEN /\ result' = [op |-> "branch", ok |-> FALSE]
            /\ UNCHANGED branches
       ELSE /\ branches' = writeFile(branches, branchName, currentCommit.hash)
            /\ result' = [op |-> "branch", ok |-> TRUE]
  /\ UNCHANGED <<sprout, simple, adding, currentBranch, staging, HEAD, files, commits, workdir, clock,
                 pc, pending, made>>

\* checkout without the fs.access check
CheckoutUnchecked(branchName) ==
  /\ pc = "idle"
  /\ staging # ENOENT
  /\ currentBranch' = branchName
  /\ HEAD' = headRef(branchName)
  /\ result' = [op |-> "checkout", ok |-> TRUE]
  /\ UNCHANGED <<sprout, simple, adding, staging, files, commits, branches, workdir, clock, pc,
                 pending, made>>

\* --------------------------------------------------------------- checkout
\* fs.access(branchPath) throws unless the branch file exists
Checkout(branchName) ==
  /\ pc = "idle"
  /\ IF branchName \in DOMAIN branches
     THEN /\ currentBranch' = branchName
          /\ HEAD' = headRef(branchName)
          /\ result' = [op |-> "checkout", ok |-> TRUE]
     ELSE /\ result' = [op |-> "checkout", ok |-> FALSE]
          /\ UNCHANGED <<currentBranch, HEAD>>
  /\ UNCHANGED <<sprout, simple, adding, staging, files, commits, branches, workdir, clock, pc,
                 pending, made>>

\* ----------------------------------------------------------------- status
\* lines 220-232: the names status lists under "Files staged for commit"
statusStaged == [i \in 1..Len(getStaging) |-> getStaging[i].filename]

\* one pass of the loop of getUnstagedChanges: is this file of the tip pushed?
unstagedFile(stg, file) ==
  IF workdir[file.filename] = NoFile
  THEN TRUE                                   \* readFile throws: the catch pushes
  ELSE LET currentHash == createHash(workdir[file.filename])
           stagedFile == findIndex(stg, file.filename)
       IN stagedFile = 0 /\ currentHash # file.hash

getUnstagedChanges ==
  LET stg == getStaging
      currentCommit == getCurrentCommit
  IN IF currentCommit = Null THEN <<>>
     ELSE LET pushed == SelectSeq(currentCommit.files,
                                  LAMBDA file : unstagedFile(stg, file))
          IN [i \in 1..Len(pushed) |-> pushed[i].filename]

\* ------------------------------------------------------------------- diff
\* the comparison of two one-line texts: equal, or one removed and one added
textDiff(oldContent, currentContent) ==
  IF oldContent = currentContent
  THEN <<[value |-> oldContent, added |-> FALSE, removed |-> FALSE]>>
  ELSE <<[value |-> oldContent, added |-> FALSE, removed |-> TRUE],
         [value |-> currentContent, added |-> TRUE, removed |-> FALSE]>>

\* what diff prints: a message, or the parts of the comparison
diff(filename) ==
  IF workdir[filename] = NoFile
  THEN [message |-> "Diff error:", parts |-> <<>>]
  ELSE LET currentContent == workdir[filename]
           lastCommit == getCurrentCommit
       IN IF lastCommit = Null
          THEN [message |-> "No previous commits to compare with", parts |-> <<>>]
          ELSE LET lastCommitFile == findIndex(lastCommit.files, filename) IN
            IF lastCommitFile = 0
            THEN [message |-> "File not found in last commit", parts |-> <<>>]
            ELSE LET oldContent == files[lastCommit.files[lastCommitFile].hash]
                 IN [message |-> "", parts |-> textDiff(oldContent, currentContent)]

\* ----------------------------------------------------------- constructor
Constructor ==
  /\ pc = "idle"
  /\ currentBranch' = "main"
  /\ UNCHANGED <<sprout, simple, adding, disk, workdir, clock, pc, pending, made, result>>

\* ------------------------------------------------------------- initialize
Initialize ==
  /\ pc = "idle"
  /\ staging' = JSONstringify(<<>>, 0)
  /\ HEAD' = headRef("main")
  /\ result' = [op |-> "init", ok |-> TRUE]
  /\ UNCHANGED <<sprout, simple, adding, currentBranch, files, commits, branches, workdir, clock, pc,
                 pending, made>>

\* the user edits, creates or deletes a working file
Edit(filename, content) ==
  /\ pc = "idle"
  /\ workdir[filename] # content
  /\ workdir' = [workdir EXCEPT ![filename] = content]
  /\ UNCHANGED <<sprout, simple, adding, currentBranch, disk, clock, pc, pending, made, result>>

Init ==
  /\ currentBranch = "main"
  /\ staging = ENOENT
  /\ HEAD = ENOENT
  /\ files = <<>>
  /\ commits = <<>>
  /\ branches = <<>>
  /\ workdir \in {w \in [Filenames -> Contents \cup {NoFile}] :
                    \A f \in Filenames : w[f] \in Editable[f]}
  /\ clock = 1
  /\ pc = "idle"
  /\ pending = Null
  /\ made = <<>>
  /\ result = [op |-> "new", ok |-> TRUE]
  /\ sHEAD = EmptyText
  /\ sIndex = JSONstringify(<<>>, 0)
  /\ sObjects = <<>>
  /\ sLog = [pc |-> "idle", currentCommitHash |-> Null]
  /\ adding = Null
  /\ vStaging = ENOENT
  /\ vFiles = ENOENT
  /\ vSetup = "idle"
  /\ vAdds = <<>>

\* ------------------------------------------------------------------ Sprout
hashObject(content) == [sha1 |-> content]

\* fs.readFile of a working file that exists
fileData(filename) == [text |-> workdir[filename]]

\* getCurrentHead: the text of HEAD (the file exists once init has run)
getCurrentHead == sHEAD

\* updateStagingArea: the index with one more entry, written indented
updateStagingArea(filePath, fileHash) ==
  JSONstringify(Append(JSONparse(sIndex), [path |-> filePath, hash |-> fileHash]), 2)

\* add: the error of a missing file is caught and logged, nothing is written
SproutAdd(fileToBeAdded) ==
  /\ sLog.pc \notin {"loop", "body"}
  /\ Len(JSONparse(sIndex)) < MaxIndex
  /\ IF workdir[fileToBeAdded] = NoFile
     THEN UNCHANGED <<sObjects, sIndex>>
     ELSE LET filedata == fileData(fileToBeAdded)
              fileHash == hashObject(filedata)
          IN /\ sObjects' = writeFile(sObjects, fileHash, filedata)
             /\ sIndex' = updateStagingArea(fileToBeAdded, fileHash)
  /\ UNCHANGED <<modern, simple, workdir, clock, sHEAD, sLog>>

SproutCommit(message) ==
  /\ sLog.pc \notin {"loop", "body"}
  /\ clock <= MaxClock
  /\ LET index == JSONparse(sIndex)
         parentCommit == getCurrentHead
         commitData == [timeStamp |-> clock, message |-> message,
                        files |-> index, parent |-> parentCommit]
         commitHash == hashObject(JSONstringify(commitData, 0))
     IN /\ sObjects' = writeFile(sObjects, commitHash, JSONstringify(commitData, 0))
        /\ sHEAD' = commitHash
        /\ sIndex' = JSONstringify(<<>>, 0)
  /\ clock' = clock + 1
  /\ UNCHANGED <<modern, simple, workdir, sLog>>

\* a commit file disappears from the commit store (removed outside the program)
LoseCommit ==
  /\ pc = "idle"
  /\ \E commitHash \in DOMAIN commits :
       commits' = [h \in DOMAIN commits \ {commitHash} |-> commits[h]]
  /\ UNCHANGED <<sprout, simple, adding, currentBranch, staging, HEAD, files, branches, workdir,
                 clock, pc, pending, made, result>>

\* ------------------------------------------------------------- Sprout.log
\* is log() inside its loop?
logRunning == sLog.pc \in {"loop", "body"}

\* log() starts: currentCommitHash = await this.getCurrentHead()
SproutLogStart ==
  /\ ~logRunning
  /\ sLog' = [pc |-> "loop", currentCommitHash |-> getCurrentHead]
  /\ UNCHANGED <<modern, simple, workdir, clock, sHEAD, sIndex, sObjects>>

\* the test of the while condition: "" and null end the loop
SproutLogTest ==
  /\ sLog.pc = "loop"
  /\ LET currentCommitHash == sLog.currentCommitHash
     IN sLog' = [sLog EXCEPT !.pc = IF currentCommitHash = EmptyText \/
                                        currentCommitHash = Null
                                     THEN "done" ELSE "body"]
  /\ UNCHANGED <<modern, simple, workdir, clock, sHEAD, sIndex, sObjects>>

\* one pass of the body: a failed read or parse rejects log(), otherwise the
\* commit is printed and its parent taken; nothing remembers the commits
\* already printed
SproutLogBody ==
  /\ sLog.pc = "body"
  /\ LET currentCommitHash == sLog.currentCommitHash IN
       IF currentCommitHash \notin DOMAIN sObjects
       THEN sLog' = [sLog EXCEPT !.pc = "threw"]
       ELSE IF "json" \notin DOMAIN sObjects[currentCommitHash]
       THEN sLog' = [sLog EXCEPT !.pc = "threw"]
       ELSE LET commitData == JSONparse(sObjects[currentCommitHash])
            IN sLog' = [pc |-> "loop", currentCommitHash |-> commitData.parent]
  /\ UNCHANGED <<modern, simple, workdir, clock, sHEAD, sIndex, sObjects>>

\* the stored commits of Sprout
sCommits == {h \in DOMAIN sObjects : "json" \in DOMAIN sObjects[h]}

\* a commit file of the object store is rewritten outside the program so that
\* its parent names a stored commit (itself included): file names are not
\* checked against the content when objects are read
SproutRelink ==
  /\ sLog.pc \notin {"loop", "body"}
  /\ \E h \in sCommits : \E p \in sCommits :
       /\ JSONparse(sObjects[h]).parent # p
       /\ sObjects' = [sObjects EXCEPT
                         ![h] = JSONstringify([JSONparse(@) EXCEPT !.parent = p], 0)]
  /\ UNCHANGED <<modern, simple, workdir, clock, sHEAD, sIndex, sLog>>

\* an object file is removed outside the program
SproutLoseObject ==
  /\ sLog.pc \notin {"loop", "body"}
  /\ \E h \in DOMAIN sObjects :
       sObjects' = [g \in DOMAIN sObjects \ {h} |-> sObjects[g]]
  /\ UNCHANGED <<modern, simple, workdir, clock, sHEAD, sIndex, sLog>>

\* --------------------------------------------------------------- SimpleVCS
\* has every add call of the process returned, and setupFolders too?
simpleIdle ==
  /\ vSetup \in {"idle", "done"}
  /\ \A i \in 1..Len(vAdds) : vAdds[i].pc \in {"done", "failed"}

\* `node simple-sprout.js add f1 ... fn`: the constructor calls setupFolders()
\* without awaiting it, then forEach starts one add per argument; each runs
\* to its first await
SimpleCLIAdd(args) ==
  /\ simpleIdle
  /\ (IF vStaging = ENOENT THEN 0 ELSE Len(JSONparse(vStaging))) + Len(args) <= MaxStaged
  /\ vSetup' = "vcsFolder"
  /\ vAdds' = [i \in 1..Len(args) |->
                 [filename |-> args[i], pc |-> "read", content |-> NoFile,
                  staging |-> <<>>]]
  /\ UNCHANGED <<modern, sprout, workdir, clock, vStaging, vFiles>>

\* setupFolders: mkdir of the main folder, then of commits
setupFoldersMkdir ==
  /\ vSetup \in {"vcsFolder", "commits"}
  /\ vSetup' = IF vSetup = "vcsFolder" THEN "commits" ELSE "files"
  /\ UNCHANGED <<modern, sprout, workdir, clock, vStaging, vFiles, vAdds>>

\* setupFolders: mkdir of files, recursive: an existing folder is left alone
setupFoldersMkdirFiles ==
  /\ vSetup = "files"
  /\ vFiles' = IF vFiles = ENOENT THEN [entries |-> <<>>] ELSE vFiles
  /\ vSetup' = "access"
  /\ UNCHANGED <<modern, sprout, workdir, clock, vStaging, vAdds>>

\* setupFolders: fs.access(stagingPath)
setupFoldersAccess ==
  /\ vSetup = "access"
  /\ vSetup' = IF vStaging = ENOENT THEN "write" ELSE "done"
  /\ UNCHANGED <<modern, sprout, workdir, clock, vStaging, vFiles, vAdds>>

\* setupFolders: fs.writeFile(stagingPath, "[]")
setupFoldersWrite ==
  /\ vSetup = "write"
  /\ vStaging' = JSONstringify(<<>>, 0)
  /\ vSetup' = "done"
  /\ UNCHANGED <<modern, sprout, workdir, clock, vFiles, vAdds>>

\* add: the read of the working file completes or rejects (the catch logs)
SimpleAddRead(i) ==
  /\ i \in 1..Len(vAdds) /\ vAdds[i].pc = "read"
  /\ LET filename == vAdds[i].filename
     IN vAdds' = [vAdds EXCEPT ![i] =
                    IF workdir[filename] = NoFile
                    THEN [@ EXCEPT !.pc = "failed"]
                    ELSE [@ EXCEPT !.pc = "writeBlob", !.content = workdir[filename]]]
  /\ UNCHANGED <<modern, sprout, workdir, clock, vStaging, vFiles, vSetup>>

\* add: the blob is written, which rejects while the files folder is missing
SimpleAddWriteBlob(i) ==
  /\ i \in 1..Len(vAdds) /\ vAdds[i].pc = "writeBlob"
  /\ IF vFiles = ENOENT
     THEN /\ vAdds' = [vAdds EXCEPT ![i].pc = "failed"]
          /\ UNCHANGED vFiles
     ELSE /\ vFiles' = [entries |-> writeFile(vFiles.entries,
                                      createHash(vAdds[i].content), vAdds[i].content)]
          /\ vAdds' = [vAdds EXCEPT ![i].pc = "readStaging"]
  /\ UNCHANGED <<modern, sprout, workdir, clock, vStaging, vSetup>>

\* add: staging.json is read and parsed, and the entry pushed on the array
SimpleAddReadStaging(i) ==
  /\ i \in 1..Len(vAdds) /\ vAdds[i].pc = "readStaging"
  /\ LET filename == vAdds[i].filename
         hash == createHash(vAdds[i].content)
     IN vAdds' = [vAdds EXCEPT ![i] =
                    IF vStaging = ENOENT
                    THEN [@ EXCEPT !.pc = "failed"]
                    ELSE [@ EXCEPT !.pc = "writeStaging",
                                   !.staging = Append(JSONparse(vStaging),
                                                 [filename |-> filename,
                                                  hash |-> hash])]]
  /\ UNCHANGED <<modern, sprout, workdir, clock, vStaging, vFiles, vSetup>>

\* add: the array is written back
SimpleAddWriteStaging(i) ==
  /\ i \in 1..Len(vAdds) /\ vAdds[i].pc = "writeStaging"
  /\ vStaging' = JSONstringify(vAdds[i].staging, 2)
  /\ vAdds' = [vAdds EXCEPT ![i].pc = "done"]
  /\ UNCHANGED <<modern, sprout, workdir, clock, vFiles, vSetup>>

\* one command (or one step of commit) of a user who stages the files of
\* `names` and names the branches of `branchNames`
Operation(names, branchNames) ==
  \/ Initialize
  \/ \E f \in Filenames : \E c \in Editable[f] : Edit(f, c)
  \/ \E a \in ArgLists(names) : Add(a)
  \/ \E m \in Messages : CommitWrite(m)
  \/ CommitUpdateBranch
  \/ CommitSaveStaging
  \/ \E b \in branchNames : Branch(b)
  \/ \E b \in branchNames : Checkout(b)

\* the same, each command by the live instance or by one newly constructed
Command(names, branchNames) ==
  \/ Constructor
  \/ Operation(names, branchNames)

\* every file, the primary branch only
Next == Command(Filenames, {"main"})

Spec == Init /\ [][Next]_vars

\* one file, every branch name
NextBranches == Command({"a.txt"}, BranchNames)

SpecBranches == Init /\ [][NextBranches]_vars

\* =================================================================== claims
entriesFor(stg, filename) == {i \in 1..Len(stg) : stg[i].filename = filename}

names(filenames) == {filenames[i] : i \in 1..Len(filenames)}

\* C1: no step leaves two staging entries for one filename, and an add
\* that returns leaves, for each filename it was given, exactly one entry, which
\* carries the hash of the file's content at the time of the add.
C1_OneEntryPerFilename ==
  [][/\ staging' # ENOENT =>
          \A f \in Filenames : Cardinality(entriesFor(getStaging', f)) <= 1
     /\ \A a \in ArgLists(Filenames) :
          (Add(a) /\ result'.ok) =>
            \A f \in names(a) :
              /\ Cardinality(entriesFor(getStaging', f)) = 1
              /\ \A i \in entriesFor(getStaging', f) :
                   getStaging'[i].hash = createHash(workdir[f])]_vars

\* an add has just replaced the staged hash of a.txt while b.txt stays staged
C1_Witness ==
  /\ result.op = "add" /\ result.ok /\ "a.txt" \in result.names
  /\ Len(getStaging) = 2

\* C2: when commit has returned, the staging index is empty and status lists
\* no staged file.
C2_CommitClearsStaging ==
  (pc = "idle" /\ result.op = "commit" /\ result.ok) =>
    (getStaging = <<>> /\ statusStaged = <<>>)

C2_Witness ==
  pc = "idle" /\ result.op = "commit" /\ result.ok /\ Len(made) >= 1

\* C3: commit on an empty staging index throws and changes no persisted file.
C3_EmptyCommitRejected ==
  [][\A m \in Messages :
       (staging # ENOENT /\ Len(getStaging) = 0 /\ CommitWrite(m)) =>
         /\ result' = [op |-> "commit", ok |-> FALSE]
         /\ pc' = "idle"
         /\ UNCHANGED disk]_vars

\* an empty commit was refused in a repository that has history
C3_Witness ==
  /\ result = [op |-> "commit", ok |-> FALSE]
  /\ staging # ENOENT /\ getStaging = <<>>
  /\ "main" \in DOMAIN branches

\* the tip of the branch HEAD names, Null when it has none
activeTip ==
  IF HEAD # ENOENT /\ getCurrentBranch \in DOMAIN branches
  THEN branches[getCurrentBranch] ELSE Null

parentOf(commitHash) == JSONparse(commits[commitHash]).parent

\* the commits met by following parent links from commitHash, at most fuel
RECURSIVE walk(_, _)
walk(commitHash, fuel) ==
  IF commitHash = Null \/ fuel = 0 THEN <<>>
  ELSE IF commitHash \notin DOMAIN commits THEN <<>>
  ELSE <<commitHash>> \o walk(parentOf(commitHash), fuel - 1)

history(commitHash) == walk(commitHash, Cardinality(DOMAIN commits) + 1)

Reverse(s) == [i \in 1..Len(s) |-> s[Len(s) + 1 - i]]

\* C4: the write of the branch pointer in commit moves the tip of the branch
\* HEAD names, and of no other branch, to the new commit, whose parent is
\* that branch's tip from before the commit.
C4_CommitAdvancesActiveBranch ==
  [][CommitUpdateBranch =>
       /\ branches' = writeFile(branches, getCurrentBranch, pending.commitHash)
       /\ parentOf(pending.commitHash) = activeTip]_vars

\* C5: in every state, between the writes of commit too, every branch file
\* holds the hash of a stored commit.
C5_TipsResolve ==
  \A b \in DOMAIN branches : branches[b] \in DOMAIN commits

\* commit has written its object and not yet moved the pointer, two refs exist
C5_Witness ==
  pc = "branch" /\ DOMAIN branches = {"main", "feature"}

\* C6: every stored commit with a parent names a stored commit as parent.
C6_ParentsResolve ==
  \A h \in DOMAIN commits : parentOf(h) # Null => parentOf(h) \in DOMAIN commits

C6_Witness ==
  \E h \in DOMAIN commits : parentOf(h) # Null /\ pc = "idle"

\* C7: while main is the only branch, after the N >= 1 commits made so far the
\* parent chain from main's tip is those N commits, newest first, all
\* distinct, and ends at a commit whose parent is null.
C7_ChainOfN ==
  (pc = "idle" /\ DOMAIN branches \subseteq {"main"} /\ made # <<>>) =>
    /\ "main" \in DOMAIN branches
    /\ LET h == history(branches["main"])
       IN /\ h = Reverse(made)
          /\ \A i, j \in 1..Len(h) : h[i] = h[j] => i = j
          /\ parentOf(h[Len(h)]) = Null

C7_Witness ==
  pc = "idle" /\ Len(made) >= 2 /\ DOMAIN branches = {"main"}

\* C8: branch throws and writes no reference when the active branch has no
\* tip; otherwise it returns and the named branch's tip is the active tip.
C8_BranchNeedsCommit ==
  [][\A b \in BranchNames :
       Branch(b) =>
         IF activeTip = Null
         THEN ~result'.ok /\ branches' = branches
         ELSE /\ result'.ok
              /\ branches' = writeFile(branches, b, activeTip)]_vars

\* branch was refused in an initialised repository with a staged file
C8_Witness ==
  /\ result = [op |-> "branch", ok |-> FALSE]
  /\ staging # ENOENT /\ Len(getStaging) > 0
  /\ branches = <<>>

\* C9: checkout of a name with no branch file throws and leaves HEAD and the
\* instance's branch alone; otherwise HEAD names the branch afterwards and
\* no tip, commit or staging entry changes.
C9_CheckoutKnownBranch ==
  [][\A b \in BranchNames :
       Checkout(b) =>
         IF b \notin DOMAIN branches
         THEN ~result'.ok /\ UNCHANGED <<HEAD, currentBranch>>
         ELSE /\ result'.ok
              /\ getCurrentBranch' = b
              /\ UNCHANGED <<branches, commits, staging>>]_vars

\* checkout of the missing branch was refused while main has commits
C9_Witness ==
  /\ pc = "idle"
  /\ result = [op |-> "checkout", ok |-> FALSE]
  /\ DOMAIN branches = {"main"}

\* C10: branch on the name of an existing branch throws and leaves its tip.
C10_BranchAlreadyExists ==
  [][\A b \in BranchNames :
       (b \in DOMAIN branches /\ Branch(b)) =>
         ~result'.ok /\ branches'[b] = branches[b]]_vars

\* C11: HEAD changes only in a checkout that returns or in the initialize
\* that creates the repository.
C11_HeadOnlyByCheckout ==
  [][HEAD' # HEAD =>
       \/ \E b \in BranchNames : Checkout(b) /\ result'.ok
       \/ HEAD = ENOENT /\ Initialize]_vars

\* C12: a staged filename leaves the staging index only in the last step of a
\* commit that returns.
C12_UnstagedOnlyByCommit ==
  [][(staging # ENOENT /\ staging' # ENOENT /\
      \E i \in 1..Len(getStaging) :
        entriesFor(getStaging', getStaging[i].filename) = {}) =>
       CommitSaveStaging]_vars

\* C13: the blob store holds one object per content: no step leaves two keys
\* with the same content, an add creates an object only for content that was
\* not stored, and staged entries of files with the same content share a key.
C13_OneBlobPerContent ==
  [][/\ \A h, g \in DOMAIN files' : files'[h] = files'[g] => h = g
     /\ \A a \in ArgLists(Filenames) :
          Add(a) => \A h \in DOMAIN files' \ DOMAIN files :
                      \A g \in DOMAIN files : files[g] # files'[h]
     /\ staging' # ENOENT =>
          \A i, j \in 1..Len(getStaging') :
            LET e == getStaging'[i]
                d == getStaging'[j]
            IN (e.hash \in DOMAIN files' /\ d.hash \in DOMAIN files'
                /\ files'[e.hash] = files'[d.hash]) => e.hash = d.hash]_vars

\* a.txt and b.txt are staged with the same content and one blob is stored
C13_Witness ==
  /\ staging # ENOENT /\ Len(getStaging) = 2
  /\ getStaging[1].hash = getStaging[2].hash
  /\ Cardinality(DOMAIN files) = 1

\* a user of Sprout who stages a.txt
NextSprout ==
  \/ \E f \in Filenames : \E c \in Editable[f] : Edit(f, c)
  \/ SproutAdd("a.txt")
  \/ \E m \in Messages : SproutCommit(m)

SpecSprout == Init /\ [][NextSprout]_vars

\* C14: every stored blob and commit, of ModernVCS and of Sprout, is stored
\* under the digest of the text stored.
C14_ContentAddressed ==
  /\ \A h \in DOMAIN files : createHash(files[h]) = h
  /\ \A h \in DOMAIN commits : createHash(commits[h]) = h
  /\ \A h \in DOMAIN sObjects : hashObject(sObjects[h]) = h

\* the part of C14 that is about Sprout
C14_SproutContentAddressed ==
  \A h \in DOMAIN sObjects : hashObject(sObjects[h]) = h

\* C18: Sprout's commit on an empty index writes nothing.
C18_SproutEmptyCommitRejected ==
  [][\A m \in Messages :
       (JSONparse(sIndex) = <<>> /\ SproutCommit(m)) => UNCHANGED sprout]_vars

\* C15: status reports a path of the tip commit as unstaged exactly when the
\* working file is missing or differs from the tip, and no staging entry for
\* the path carries the working file's current fingerprint.
C15_UnstagedExactly ==
  (pc = "idle" /\ staging # ENOENT /\ getCurrentCommit # Null) =>
    \A i \in 1..Len(getCurrentCommit.files) :
      LET file == getCurrentCommit.files[i]
          missing == workdir[file.filename] = NoFile
          differs == createHash(workdir[file.filename]) # file.hash
          matching == /\ ~missing
                      /\ \E e \in entriesFor(getStaging, file.filename) :
                           getStaging[e].hash = createHash(workdir[file.filename])
      IN (file.filename \in names(getUnstagedChanges))
           <=> ((missing \/ differs) /\ ~matching)

\* C20: diff of a file that the tip commit of the active branch does not
\* record reports the whole current content of the file as added.
C20_NewFileAllAdded ==
  \A f \in Filenames :
    (/\ pc = "idle"
     /\ workdir[f] # NoFile
     /\ getCurrentCommit # Null
     /\ entriesFor(getCurrentCommit.files, f) = {}) =>
      diff(f).parts = <<[value |-> workdir[f], added |-> TRUE, removed |-> FALSE]>>

\* one instance that lives through all the operations: no second construction
NextOneInstance == Operation({"a.txt"}, BranchNames)

SpecOneInstance == Init /\ [][NextOneInstance]_vars

\* the commands, and writes of commit that reject
NextFaults == Command({"a.txt"}, {"main"}) \/ CommitFail

SpecFaults == Init /\ [][NextFaults]_vars

\* the commands, and commit files that disappear
NextDamaged == Command({"a.txt"}, {"main"}) \/ LoseCommit

SpecDamaged == Init /\ [][NextDamaged]_vars

\* C16: what an operation of a long-lived instance persists is what the same
\* operation of a freshly constructed instance (currentBranch = "main", the
\* rest read from disk) persists: the commit records the branch "main" and
\* the pointer written is that of "main".
C16_FreshInstanceSameDisk ==
  [][/\ \A m \in Messages :
          (CommitWrite(m) /\ pc' = "branch") =>
             commits' = writeFile(commits, pending'.commitHash,
                          JSONstringify([newCommit(m) EXCEPT !.branch = "main"], 2))
     /\ CommitUpdateBranch =>
          branches' = updateBranchPointer("main", pending.commitHash)]_vars

\* a commit step
commitStep ==
  \/ \E m \in Messages : CommitWrite(m)
  \/ CommitUpdateBranch
  \/ CommitSaveStaging
  \/ CommitFail

\* C17: commit writes the commit object, then the branch pointer, then the
\* emptied staging index; a commit that fails leaves the staging index as it was;
\* and a commit step empties the staging index only when some branch pointer
\* names a stored commit that records the staged entries.
C17_CommitOrder ==
  [][/\ (pc = "idle" /\ pc' = "branch") =>
          /\ pending'.commitHash \in DOMAIN commits' \ DOMAIN commits
          /\ branches' = branches /\ staging' = staging
     /\ (pc = "branch" /\ pc' = "staging") =>
          /\ pending.commitHash \in DOMAIN commits /\ commits' = commits
          /\ \E b \in DOMAIN branches' : branches'[b] = pending.commitHash
          /\ staging' = staging
     /\ (pc = "staging" /\ staging' # staging) =>
          /\ commits' = commits /\ branches' = branches
          /\ \E b \in DOMAIN branches : branches[b] = pending.commitHash
     /\ (commitStep /\ result'.ok = FALSE /\ result'.op = "commit") =>
          staging' = staging
     /\ (commitStep /\ staging # ENOENT /\ Len(getStaging) > 0 /\ staging' # staging) =>
          /\ Len(getStaging') = 0
          /\ \E b \in DOMAIN branches :
               /\ branches[b] \in DOMAIN commits
               /\ JSONparse(commits[branches[b]]).files = getStaging]_vars

\* a commit failed at its last write: the pointer names the new commit, which
\* records the entries still staged
C17_Witness ==
  /\ pc = "idle" /\ result = [op |-> "commit", ok |-> FALSE]
  /\ staging # ENOENT /\ Len(getStaging) > 0
  /\ \E b \in DOMAIN branches :
       /\ branches[b] \in DOMAIN commits
       /\ branches[b] \notin names(made)
       /\ JSONparse(commits[branches[b]]).files = getStaging

\* C19: when the active branch's pointer exists and the commit it names cannot
\* be read, commit fails and writes nothing.
C19_UnreadableTipRejected ==
  [][\A m \in Messages :
       (/\ HEAD # ENOENT /\ getCurrentBranch \in DOMAIN branches
        /\ branches[getCurrentBranch] \notin DOMAIN commits
        /\ CommitWrite(m)) =>
          (commits' = commits /\ pc' = "idle")]_vars

\* C25: a commit records the entries staged at the commit and no others, and
\* status reports no path that the tip commit of the active branch does not
\* list, whatever the working file holds.
C25_StatusReadsTipOnly ==
  [][/\ \A m \in Messages :
          (CommitWrite(m) /\ pc' = "branch") =>
             JSONparse(commits'[pending'.commitHash]).files = getStaging
     /\ (pc' = "idle" /\ staging' # ENOENT /\ getCurrentCommit' # Null) =>
          \A f \in Filenames :
            entriesFor(getCurrentCommit'.files, f) = {} =>
              f \notin names(getUnstagedChanges')]_vars

\* a.txt was committed in the parent of the tip, the tip does not list it, the
\* working file no longer holds what was committed, and status is silent
C25_Witness ==
  /\ pc = "idle" /\ staging # ENOENT /\ getCurrentCommit # Null
  /\ getCurrentCommit.parent \in DOMAIN commits
  /\ entriesFor(getCurrentCommit.files, "a.txt") = {}
  /\ LET old == JSONparse(commits[getCurrentCommit.parent]).files
     IN \E i \in 1..Len(old) :
          /\ old[i].filename = "a.txt"
          /\ workdir["a.txt"] # NoFile => old[i].hash # createHash(workdir["a.txt"])
  /\ "a.txt" \notin names(getUnstagedChanges)

\* every command is its own process: the instance that runs it was just
\* constructed, so currentBranch is "main" when the command starts
NextCLI ==
  \/ Constructor
  \/ currentBranch = "main" /\ Initialize
  \/ currentBranch = "main" /\ \E c \in Editable["a.txt"] : Edit("a.txt", c)
  \/ currentBranch = "main" /\ \E a \in ArgLists({"a.txt"}) : Add(a)
  \/ currentBranch = "main" /\ \E m \in Messages : CommitWrite(m)
  \/ currentBranch = "main" /\ CommitUpdateBranch
  \/ currentBranch = "main" /\ CommitSaveStaging
  \/ currentBranch = "main" /\ \E b \in BranchNames : Branch(b)
  \/ currentBranch = "main" /\ \E b \in BranchNames : Checkout(b)

SpecCLI == Init /\ [][NextCLI]_vars

\* C24: between commands, every stored commit is met by following parent
\* links from the tip of some branch.
C24_NoOrphanCommit ==
  pc = "idle" =>
    \A h \in DOMAIN commits :
      \E b \in DOMAIN branches : h \in names(history(branches[b]))

\* Sprout with log, on a store that may be damaged from outside; a log that
\* has started keeps running
NextSproutLog ==
  \/ SproutAdd("a.txt")
  \/ \E m \in Messages : SproutCommit(m)
  \/ SproutLogStart
  \/ SproutLogTest
  \/ SproutLogBody
  \/ SproutRelink
  \/ SproutLoseObject

SpecSproutLog ==
  Init /\ [][NextSproutLog]_vars /\ WF_vars(SproutLogTest) /\ WF_vars(SproutLogBody)

\* C23: a log that has started stops: at the root commit, or with an error on
\* a parent that names no stored object or on a cycle of parent links.
C23_LogTerminates == logRunning ~> (sLog.pc \in {"done", "threw"})

\* add of a directory, with Initialize, single adds and edits around it
NextAddDirectory ==
  \/ adding = Null /\ Initialize
  \/ \E f \in Filenames : \E c \in Editable[f] : Edit(f, c)
  \/ adding = Null /\ \E a \in ArgLists(Filenames) : Add(a)
  \/ AddDirectoryStart
  \/ \E f \in Filenames : AddFileRead(f)
  \/ \E f \in Filenames : AddFileWrite(f)
  \/ \E f \in Filenames : AddFileUpdate(f)
  \/ AddDirectorySave
  \/ AddDirectoryThrow

SpecAddDirectory == Init /\ [][NextAddDirectory]_vars

\* C21: the staging index that add of a directory saves lists the paths staged
\* before in their positions, then the paths of the directory that were not
\* staged, in the order of the directory's traversal, whatever the order in
\* which the addFile calls ran.
C21_DirectoryAddOrder ==
  [][AddDirectorySave =>
       LET old == [i \in 1..Len(getStaging) |-> getStaging[i].filename]
           new == SelectSeq(adding.dirFiles,
                            LAMBDA file : entriesFor(getStaging, file) = {})
       IN [i \in 1..Len(getStaging') |-> getStaging'[i].filename] = old \o new]_vars

\* runs of `node simple-sprout.js add ...`, one process after the other
NextSimple ==
  \/ \E args \in ArgLists(Filenames) : SimpleCLIAdd(args)
  \/ setupFoldersMkdir
  \/ setupFoldersMkdirFiles
  \/ setupFoldersAccess
  \/ setupFoldersWrite
  \/ \E i \in 1..MaxArgs : SimpleAddRead(i)
  \/ \E i \in 1..MaxArgs : SimpleAddWriteBlob(i)
  \/ \E i \in 1..MaxArgs : SimpleAddReadStaging(i)
  \/ \E i \in 1..MaxArgs : SimpleAddWriteStaging(i)

SpecSimple == Init /\ [][NextSimple]_vars

\* C22: when the add calls of `add f1 ... fn`, n >= 2, have all completed (here:
\* each of them wrote staging.json), the staging file has an entry for every
\* one of f1..fn.
C22_NoLostStagingUpdate ==
  (/\ simpleIdle /\ Len(vAdds) >= 2
   /\ \A i \in 1..Len(vAdds) : vAdds[i].pc = "done") =>
     \A i \in 1..Len(vAdds) :
       \E j \in 1..Len(JSONparse(vStaging)) :
         JSONparse(vStaging)[j].filename = vAdds[i].filename

====
